---- MODULE Spec2Model ----
(***************************************************************************)
(* Model of the Apify credential pool (ApifyTokenManager) and of the       *)
(* gateway that uses it (runActorAndGetResults).                           *)
(*                                                                         *)
(* JavaScript runs one continuation at a time: the code between two        *)
(* awaits is one atomic step.  A task is one chain of async calls; it      *)
(* suspends where the code awaits network I/O (a credit probe, the actor   *)
(* run, the dataset listing).  Token indices are 0-based as in the code.   *)
(* Credits are counted in units of 0.00025 USD, the factor of the          *)
(* threshold formula: 0.05 USD = 200, 0.1 USD = 400, 5 USD = 20000.        *)
(*                                                                         *)
(* Four specifications share the state: Spec (calls that overlap), SpecSeq *)
(* (calls awaited one at a time), SpecFetch (requests that go through the  *)
(* retry wrapper) and SpecNew (the constructor, whose strings are the      *)
(* sequences of their characters).                                         *)
(***************************************************************************)
EXTENDS Integers, Sequences, FiniteSets, TLC

\* ---------------------------------------------------------------- bounds
MaxTokens == 3
MaxRacingTokens == 2
NumTasks == 2
MaxLen == 4
MaxEntries == 2
MaxAttempts == 3

Tasks == 1..NumTasks

\* ------------------------------------------------------------- constants
NoToken == "null"
NoError == "none"
NoValidTokens == "No valid Apify tokens available"
ActorError == "actor call failed"
DatasetError == "dataset listing failed"
Items == "items"
Tweets == "tweets"
Result == "result"
RequestFailed == "Request failed"
NotStringOrArray == "Tokens must be a comma-separated string or array"
NoTokensProvided == "No valid Apify tokens provided"
RetryExhausted == "RetryExhausted"
OperationErrors == {"E1", "E2"}
\* Mutant: fetch asks for one attempt more.
FETCH_RETRIES_eleven == 10 + 1

\* The number of attempts fetch asks the retry wrapper for.
FETCH_RETRIES == 10
Undefined == -1
NoLimit == -1
TokenNames == <<"A", "B", "C", "D", "E">>

\* The configured token lists: 1 to MaxTokens tokens.
TokenLists == { SubSeq(TokenNames, 1, n) : n \in 1..MaxTokens }

\* The token lists of the runs in which calls overlap.
RacingTokenLists == { SubSeq(TokenNames, 1, n) : n \in 1..MaxRacingTokens }

TweetLimits == {NoLimit, 100}

\* The limits of the runs in which calls do not overlap.
AllTweetLimits == TweetLimits \cup {0}

\* The answers of the two account endpoints to one probe: whether the read
\* of /users/me and the read of /users/me/usage/monthly succeed, and the
\* credits they report.
Replies ==
  { [userOk |-> FALSE, usageOk |-> TRUE, included |-> 0, used |-> 0],
    [userOk |-> TRUE, usageOk |-> FALSE, included |-> 0, used |-> 0],
    [userOk |-> TRUE, usageOk |-> TRUE, included |-> 20000, used |-> 0],
    [userOk |-> TRUE, usageOk |-> TRUE, included |-> 20000, used |-> 19800] }

\* With the answer that leaves exactly 0.1 USD, for the scans and checks
\* of the runs in which calls do not overlap.
ThresholdReplies ==
  Replies \cup
  { [userOk |-> TRUE, usageOk |-> TRUE, included |-> 20000, used |-> 19600] }

\* More answers, for the direct calls of getTokenCredits: more used than
\* included, no included credits reported.
AllReplies ==
  ThresholdReplies \cup
  { [userOk |-> TRUE, usageOk |-> TRUE, included |-> 20000, used |-> 20400],
    [userOk |-> TRUE, usageOk |-> TRUE, included |-> Undefined, used |-> 200] }

\* The characters of the constructor's strings.
Whitespace == {" "}

Chars == {"a", ","} \cup Whitespace

Strings(n) == UNION { [1..k -> Chars] : k \in 0..n }

\* The arguments the constructor is called with: a string, an array of
\* strings, or a value that is neither.
ConstructorInputs ==
  { [type |-> "string", value |-> s] : s \in Strings(MaxLen) }
  \cup { [type |-> "array", value |-> a] :
           a \in UNION { [1..k -> { s \in Strings(2) :
                                      \A c \in 1..Len(s) : s[c] # "," }] :
                         k \in 0..MaxEntries } }
  \cup { [type |-> "other", value |-> <<>>] }

VARIABLES
  tweetLimit,         \* process.env.TWEET_LIMIT, NoLimit when unset
  tokens,             \* this.tokens
  input,              \* the argument of the constructor
  tokenCredits,       \* this.tokenCredits, a map from key to snapshot
  currentToken,       \* this.currentToken
  currentTokenIndex,  \* this.currentTokenIndex
  failedTokens,       \* this.failedTokens
  globalToken,        \* the module-level currentToken
  task,               \* the async call chains in flight
  completed           \* the call that settled in the last step, if any

vars == <<tweetLimit, tokens, input, tokenCredits, currentToken, currentTokenIndex,
          failedTokens, globalToken, task, completed>>

pool == <<tokenCredits, currentToken, currentTokenIndex, failedTokens,
          globalToken>>

config == <<tweetLimit, tokens, input>>

\* ------------------------------------------------------- pure functions
Max(a, b) == IF a >= b THEN a ELSE b

Min(S) == CHOOSE x \in S : \A y \in S : x <= y

Highest(S) == CHOOSE x \in S : \A y \in S : y <= x

\* String.prototype.split(',')
RECURSIVE split(_)
split(s) ==
  IF \A k \in 1..Len(s) : s[k] # ","
    THEN <<s>>
    ELSE LET c == Min({ k \in 1..Len(s) : s[k] = "," })
         IN <<SubSeq(s, 1, c - 1)>> \o split(SubSeq(s, c + 1, Len(s)))

\* String.prototype.trim
trim(s) ==
  LET kept == { k \in 1..Len(s) : s[k] \notin Whitespace }
  IN IF kept = {} THEN <<>> ELSE SubSeq(s, Min(kept), Highest(kept))

Truthy(s) == s # <<>>

\* this.tokens as lines 31-35 set it, for a string or an array.
parseTokens(arg) ==
  IF arg.type = "string"
    THEN LET parts == split(arg.value)
         IN SelectSeq([k \in 1..Len(parts) |-> trim(parts[k])], Truthy)
    ELSE arg.value

\* Mutant: the 100 extra items are left out of the threshold.
MIN_CREDITS_THRESHOLD_plain ==
  IF tweetLimit # NoLimit THEN tweetLimit ELSE 400

MIN_CREDITS_THRESHOLD ==
  IF tweetLimit # NoLimit THEN tweetLimit + 100 ELSE 400

\* x || 0
OrZero(x) == IF x = Undefined THEN 0 ELSE x

\* Mutant: the remaining credits are not clamped at zero.
getTokenCredits_unclamped(token, reply) ==
  IF reply.userOk /\ reply.usageOk
    THEN [token |-> token,
          includedCredits |-> OrZero(reply.included),
          usedCredits |-> OrZero(reply.used),
          remainingCredits |-> OrZero(reply.included) - OrZero(reply.used),
          isValid |-> TRUE,
          error |-> NoError]
    ELSE [token |-> token,
          includedCredits |-> 0,
          usedCredits |-> 0,
          remainingCredits |-> 0,
          isValid |-> FALSE,
          error |-> RequestFailed]

\* getTokenCredits(token), given what the two endpoints answer.  A
\* snapshot of a successful probe has no error property.
getTokenCredits(token, reply) ==
  IF reply.userOk /\ reply.usageOk
    THEN [token |-> token,
          includedCredits |-> OrZero(reply.included),
          usedCredits |-> OrZero(reply.used),
          remainingCredits |->
            Max(0, OrZero(reply.included) - OrZero(reply.used)),
          isValid |-> TRUE,
          error |-> NoError]
    ELSE [token |-> token,
          includedCredits |-> 0,
          usedCredits |-> 0,
          remainingCredits |-> 0,
          isValid |-> FALSE,
          error |-> RequestFailed]

\* Mutant: a token with exactly the threshold left is turned down.
Qualifies_strict(tokenInfo) ==
  tokenInfo.isValid /\ tokenInfo.remainingCredits > MIN_CREDITS_THRESHOLD

\* The test of selectNextToken and checkAndRotateToken on a snapshot.
Qualifies(tokenInfo) ==
  tokenInfo.isValid /\ tokenInfo.remainingCredits >= MIN_CREDITS_THRESHOLD

TokenAt(k) == tokens[k + 1]

\* Mutant: the loop does not skip the failed tokens.
Candidates_noskip(from, failed) == from..(Len(tokens) - 1)

\* The indices the loop of selectNextToken visits from index `from` without
\* skipping them, for a given failed set.
Candidates(from, failed) ==
  { k \in from..(Len(tokens) - 1) : TokenAt(k) \notin failed }

\* The first index the loop probes, Len(tokens) when it runs off the end.
NextCandidate(from, failed) ==
  IF Candidates(from, failed) = {} THEN Len(tokens)
  ELSE Min(Candidates(from, failed))

\* Mutant: getCurrentToken selects afresh on every call.
NoneSelected_always == TRUE

\* The test of line 178
NoneSelected == currentToken = NoToken

\* Mutant: a disqualified token is not recorded.
MarkFailed_forget(failed, token) == failed

\* Set.add of lines 158 and 211
MarkFailed(failed, token) == failed \cup {token}

\* Mutant: the loop starts over from the first token.
LoopStart_zero(index) == 0

\* The index the loop of line 128 starts at, given this.currentTokenIndex.
LoopStart(index) == index

\* Mutant: the index is not moved past the dropped token.
NextIndex_stay(index) == index

\* The increment of line 221
NextIndex(index) == index + 1

\* Map.set
MapSet(map, key, value) ==
  [k \in DOMAIN map \cup {key} |-> IF k = key THEN value ELSE map[k]]

\* ------------------------------------------------------------ task state
\* pc: where the chain is suspended; op: the call that started it; via: the
\* caller of selectNextToken; i, probing: the loop index and the token whose
\* probe is in flight; detached: the caller already has its result.  The
\* retry wrapper keeps maxAttempts (0 outside the wrapper), the number of
\* the attempt that is running and the error of the last failed one.  The
\* rest records what the chain did: the index the scan started at, what the
\* scan did at each index, the index a rotation dropped, how often the actor
\* was run and the dataset listed, how often a request called
\* selectNextToken, how the invocations of a wrapped operation ended.
IdleTask ==
  [pc |-> "idle", op |-> "none", via |-> "none", i |-> 0,
   probing |-> NoToken, detached |-> FALSE,
   maxAttempts |-> 0, attempts |-> 0, lastError |-> NoError,
   scanStart |-> -1, log |-> <<>>, dropped |-> -1,
   actorRuns |-> 0, listings |-> 0, selections |-> 0, outcomes |-> <<>>]

Free(p) == task[p].pc = "idle"

\* A new chain takes the first free slot.
FirstFree(p) == Free(p) /\ \A q \in Tasks : Free(q) => p <= q

\* What a caller sees when its call settles: the value or the error (with
\* the error it wraps), the snapshots a probing call returns and the
\* answers they were made from; with what the chain did.
NoCompletion ==
  [op |-> "none", ret |-> NoToken, err |-> NoError, cause |-> NoError,
   results |-> <<>>, replies |-> <<>>, background |-> FALSE,
   maxAttempts |-> 0, attempts |-> 0,
   scanStart |-> -1, log |-> <<>>, dropped |-> -1,
   actorRuns |-> 0, listings |-> 0, selections |-> 0, outcomes |-> <<>>]

Completion(t, value, error) ==
  [op |-> t.op, ret |-> value, err |-> error, cause |-> NoError,
   results |-> <<>>, replies |-> <<>>, background |-> t.detached,
   maxAttempts |-> t.maxAttempts, attempts |-> t.attempts,
   scanStart |-> t.scanStart, log |-> t.log, dropped |-> t.dropped,
   actorRuns |-> t.actorRuns, listings |-> t.listings,
   selections |-> t.selections, outcomes |-> t.outcomes]

\* The log entries of the indices from..(j-1), which the loop skips.
SkipLog(from, j) ==
  [k \in 1..(j - from) |-> [idx |-> from + k - 1, verdict |-> "skip"]]

\* An outcome of a step of a chain: its next task state and the completion
\* it reports, if it settles.
Suspended(t) == [task |-> t, completed |-> NoCompletion]

Settled(t, value, error) ==
  [task |-> IdleTask, completed |-> Completion(t, value, error)]

\* Mutant: the wrapper makes one attempt more than its budget.
RetryOrExhaust_extra(t, error) ==
  IF t.attempts <= t.maxAttempts
    THEN Suspended([t EXCEPT !.pc = "retry_wait", !.probing = NoToken,
                             !.lastError = error])
    ELSE [task |-> IdleTask,
          completed |-> [Completion(t, NoToken, RetryExhausted)
                           EXCEPT !.cause = error]]

\* Mutant: the wrapper gives up one attempt before its budget.
RetryOrExhaust_early(t, error) ==
  IF t.attempts + 1 < t.maxAttempts
    THEN Suspended([t EXCEPT !.pc = "retry_wait", !.probing = NoToken,
                             !.lastError = error])
    ELSE [task |-> IdleTask,
          completed |-> [Completion(t, NoToken, RetryExhausted)
                           EXCEPT !.cause = error]]

\* The retry wrapper after an attempt of chain t failed with `error`: it
\* waits and tries again while attempts are left, and fails with
\* RetryExhausted around the last error when none is.
RetryOrExhaust(t, error) ==
  IF t.attempts < t.maxAttempts
    THEN Suspended([t EXCEPT !.pc = "retry_wait", !.probing = NoToken,
                             !.lastError = error])
    ELSE [task |-> IdleTask,
          completed |-> [Completion(t, NoToken, RetryExhausted)
                           EXCEPT !.cause = error]]

\* An error thrown in chain t: it reaches the caller, or the retry wrapper
\* when the call was made under one (the catch of fetch rethrows it).
Failed(t, error) ==
  IF t.maxAttempts = 0
    THEN Settled(t, NoToken, error)
    ELSE RetryOrExhaust(t, error)

Gateway(t) == t.op \in {"runActorAndGetResults", "fetch"}

\* What the caller of chain t gets from a successful listing: the items, or
\* the tweets transformTweets makes of them.
Returned(t) == IF t.op = "fetch" THEN Tweets ELSE Items

\* selectNextToken returned `token` in chain t (line 155).
AfterSelect(t, token) ==
  IF t.via = "checkAndRotateToken"
    THEN Settled(t, NoToken, NoError)
  ELSE IF Gateway(t)
    THEN \* lines 47-52: the client is built and the actor is called
         Suspended([t EXCEPT !.pc = "actor_call", !.probing = NoToken,
                             !.actorRuns = t.actorRuns + 1])
  ELSE Settled(t, token, NoError)

\* Mutant: the index recorded for the adopted token is one too high.
AdoptedIndex_next(i) == i + 1

\* this.currentTokenIndex = i of line 151.
AdoptedIndex(i) == i

\* Mutant: the rotation check keeps the dropped token selected.
Cleared_kept(token) == token

\* this.currentToken = null of line 222.
Cleared(token) == NoToken

\* Mutant: the loop does not advance after a disqualified token.
LoopNext_stay(i) == i

\* i++ of line 128.
LoopNext(i) == i + 1

\* Mutant: selectNextToken returns nothing instead of throwing.
AfterThrow_returns(t) == AfterSelect(t, NoToken)

\* Mutant: checkAndRotateToken does not catch the error.
AfterThrow_uncaught(t) == Settled(t, NoToken, NoValidTokens)

\* selectNextToken threw in chain t (line 170).
AfterThrow(t) ==
  IF t.via = "checkAndRotateToken"
    THEN \* caught at line 227 and logged
         Settled(t, NoToken, NoError)
    ELSE \* propagates through getCurrentToken and runActorAndGetResults
         Failed(t, NoValidTokens)

\* The loop of selectNextToken in chain t, entered at index `from` with the
\* failed set `failed`: it runs to the next probe or off the end.
ScanFrom(t, index, failed) ==
  LET from == LoopStart(index)
      j == NextCandidate(from, failed)
      logged == [t EXCEPT !.log = t.log \o SkipLog(from, j)]
  IN IF j < Len(tokens)
       THEN Suspended([logged EXCEPT !.pc = "select_probe", !.i = j,
                                     !.probing = TokenAt(j)])
       ELSE AfterThrow(logged)

\* checkAndRotateToken() up to its await at line 200.
StartRotation(t) ==
  IF currentToken = NoToken
    THEN Settled(t, NoToken, NoError)
    ELSE Suspended([t EXCEPT !.pc = "rotate_probe",
                             !.via = "checkAndRotateToken",
                             !.probing = currentToken])

\* runActorAndGetResults in chain t up to its first suspension (lines
\* 41-52): getCurrentToken() scans when no token is selected.
GatewayStart(t) ==
  IF NoneSelected
    THEN ScanFrom([t EXCEPT !.via = "getCurrentToken",
                            !.scanStart = currentTokenIndex, !.log = <<>>,
                            !.selections = t.selections + 1],
                  currentTokenIndex, failedTokens)
    ELSE AfterSelect([t EXCEPT !.via = "getCurrentToken",
                               !.scanStart = -1, !.log = <<>>],
                     currentToken)

\* The module-level currentToken after getCurrentToken() of line 179-184.
GatewayGlobal == IF NoneSelected THEN globalToken ELSE currentToken

\* The exported synchronous getCurrentToken() of lines 245-247.
ModuleGetCurrentToken == globalToken

\* Mutant: checkAllTokens leaves out the failed tokens.
CheckedTokens_skipfailed ==
  SelectSeq(tokens, LAMBDA t : t \notin failedTokens)

\* this.tokens.map of line 98: the tokens checkAllTokens probes.
CheckedTokens == tokens

\* results.forEach(result => this.tokenCredits.set(result.token, result))
RECURSIVE SetAll(_, _)
SetAll(map, results) ==
  IF results = <<>> THEN map
  ELSE SetAll(MapSet(map, Head(results).token, Head(results)), Tail(results))

Becomes(p, outcome) ==
  /\ task' = [task EXCEPT ![p] = outcome.task]
  /\ completed' = outcome.completed

\* ----------------------------------------------------------------- Init
\* Lines 43-47 and line 26; no call has been made.
Fresh ==
  /\ tokenCredits = <<>>
  /\ currentToken = NoToken
  /\ currentTokenIndex = 0
  /\ failedTokens = {}
  /\ globalToken = NoToken
  /\ task = [p \in Tasks |-> IdleTask]
  /\ completed = NoCompletion

\* A pool made from one of the token lists.
Constructed(lists) ==
  /\ tweetLimit \in TweetLimits
  /\ tokens \in lists
  /\ input = [type |-> "array", value |-> tokens]
  /\ Fresh

Init == Constructed(RacingTokenLists)

InitSeq ==
  /\ tweetLimit \in AllTweetLimits
  /\ tokens \in TokenLists
  /\ input = [type |-> "array", value |-> tokens]
  /\ Fresh

InitFetch == Constructed(TokenLists)

\* Before `new ApifyTokenManager(input)`.
NotConstructed ==
  /\ tweetLimit \in TweetLimits
  /\ input \in ConstructorInputs
  /\ tokens = <<>>
  /\ Fresh

\* ------------------------------------------------------------- actions
\* selectNextToken() called directly.
CallSelectNextToken(p) ==
  /\ FirstFree(p)
  /\ Becomes(p, ScanFrom([IdleTask EXCEPT !.op = "selectNextToken",
                                          !.via = "direct",
                                          !.scanStart = currentTokenIndex],
                         currentTokenIndex, failedTokens))
  /\ UNCHANGED <<config, pool>>

\* The probe of line 139 completes; the loop body runs on from line 142.
SelectReply(p, reply) ==
  /\ task[p].pc = "select_probe"
  /\ LET t == task[p]
         token == t.probing
         tokenInfo == getTokenCredits(token, reply)
     IN /\ tokenCredits' = MapSet(tokenCredits, token, tokenInfo)
        /\ IF Qualifies(tokenInfo)
             THEN /\ currentToken' = token
                  /\ currentTokenIndex' = AdoptedIndex(t.i)
                  /\ globalToken' = token
                  /\ failedTokens' = failedTokens
                  /\ Becomes(p, AfterSelect([t EXCEPT !.log = Append(t.log,
                         [idx |-> t.i, verdict |-> "pick"])], token))
             ELSE /\ failedTokens' = MarkFailed(failedTokens, token)
                  /\ Becomes(p, ScanFrom([t EXCEPT !.log = Append(t.log,
                         [idx |-> t.i, verdict |-> "fail"])],
                       LoopNext(t.i), MarkFailed(failedTokens, token)))
                  /\ UNCHANGED <<currentToken, currentTokenIndex, globalToken>>
  /\ UNCHANGED config

\* getCurrentToken() of the pool.
CallGetCurrentToken(p) ==
  /\ FirstFree(p)
  /\ LET t == [IdleTask EXCEPT !.op = "getCurrentToken",
                               !.via = "getCurrentToken"]
     IN IF NoneSelected
          THEN /\ Becomes(p, ScanFrom([t EXCEPT !.scanStart = currentTokenIndex],
                                      currentTokenIndex, failedTokens))
               /\ UNCHANGED globalToken
          ELSE /\ globalToken' = currentToken
               /\ Becomes(p, Settled(t, currentToken, NoError))
  /\ UNCHANGED <<config, tokenCredits, currentToken, currentTokenIndex,
                 failedTokens>>

\* checkAndRotateToken() called directly.
CallCheckAndRotateToken(p) ==
  /\ FirstFree(p)
  /\ Becomes(p, StartRotation([IdleTask EXCEPT !.op = "checkAndRotateToken"]))
  /\ UNCHANGED <<config, pool>>

\* The probe of line 200 completes; lines 203-229.
RotateReply(p, reply) ==
  /\ task[p].pc = "rotate_probe"
  /\ LET t == task[p]
         tokenInfo == getTokenCredits(t.probing, reply)
     IN /\ tokenCredits' = MapSet(tokenCredits, currentToken, tokenInfo)
        /\ IF Qualifies(tokenInfo)
             THEN /\ Becomes(p, Settled(t, NoToken, NoError))
                  /\ UNCHANGED <<currentToken, currentTokenIndex, failedTokens>>
             ELSE /\ failedTokens' = MarkFailed(failedTokens, currentToken)
                  /\ IF currentToken = NoToken
                       THEN \* null.substring throws at line 213; caught
                            /\ Becomes(p, Settled(t, NoToken, NoError))
                            /\ UNCHANGED <<currentToken, currentTokenIndex>>
                       ELSE /\ currentTokenIndex' = NextIndex(currentTokenIndex)
                            /\ currentToken' = Cleared(currentToken)
                            /\ Becomes(p, ScanFrom(
                                 [t EXCEPT !.dropped = currentTokenIndex,
                                           !.scanStart = NextIndex(currentTokenIndex),
                                           !.log = <<>>],
                                 NextIndex(currentTokenIndex),
                                 MarkFailed(failedTokens, currentToken)))
  /\ UNCHANGED <<config, globalToken>>

\* Mutant: resetFailedTokens() also starts the selection over.
ResetFailedTokens_rewind ==
  /\ failedTokens' = {}
  /\ currentToken' = NoToken
  /\ currentTokenIndex' = 0
  /\ completed' = [NoCompletion EXCEPT !.op = "resetFailedTokens"]
  /\ UNCHANGED <<config, tokenCredits, globalToken, task>>

\* resetFailedTokens()
ResetFailedTokens ==
  /\ failedTokens' = {}
  /\ completed' = [NoCompletion EXCEPT !.op = "resetFailedTokens"]
  /\ UNCHANGED <<config, tokenCredits, currentToken, currentTokenIndex,
                 globalToken, task>>

\* runActorAndGetResults up to its first suspension (lines 41-52).
CallRunActorAndGetResults(p) ==
  /\ FirstFree(p)
  /\ Becomes(p, GatewayStart([IdleTask EXCEPT
                                !.op = "runActorAndGetResults"]))
  /\ globalToken' = GatewayGlobal
  /\ UNCHANGED <<config, tokenCredits, currentToken, currentTokenIndex,
                 failedTokens>>

\* The actor run of line 52 succeeds; the dataset listing is issued.
ActorCallOk(p) ==
  /\ task[p].pc = "actor_call"
  /\ Becomes(p, Suspended([task[p] EXCEPT !.pc = "list_items",
                             !.listings = task[p].listings + 1]))
  /\ UNCHANGED <<config, pool>>

\* Mutant: a gateway call whose actor run failed leaves a rotation check
\* behind.
ActorCallFail_rotating(p) ==
  /\ task[p].pc = "actor_call"
  /\ task' = [task EXCEPT ![p] =
                StartRotation([IdleTask EXCEPT !.op = task[p].op,
                                               !.detached = TRUE]).task]
  /\ completed' = Completion(task[p], NoToken, ActorError)
  /\ UNCHANGED <<config, pool>>

\* The actor run of line 52 fails: the error propagates to the caller.
ActorCallFail(p) ==
  /\ task[p].pc = "actor_call"
  /\ Becomes(p, Failed(task[p], ActorError))
  /\ UNCHANGED <<config, pool>>

\* Mutant: the gateway awaits the rotation check before it returns.
ListItemsOk_awaited(p) ==
  /\ task[p].pc = "list_items"
  /\ LET awaited == StartRotation(task[p])
     IN /\ task' = [task EXCEPT ![p] = awaited.task]
        /\ completed' = IF awaited.task.pc = "idle"
                          THEN Completion(task[p], Items, NoError)
                          ELSE NoCompletion
  /\ UNCHANGED <<config, pool>>

\* The listing of line 55 succeeds: the rotation check is launched without
\* being awaited and the items are returned (lines 57-65).
ListItemsOk(p) ==
  /\ task[p].pc = "list_items"
  /\ LET background == StartRotation([task[p] EXCEPT !.detached = TRUE,
                                           !.scanStart = -1, !.log = <<>>,
                                           !.maxAttempts = 0,
                                           !.attempts = 0,
                                           !.lastError = NoError,
                                           !.selections = 0])
     IN /\ task' = [task EXCEPT ![p] = background.task]
        /\ completed' = Completion(task[p], Returned(task[p]), NoError)
  /\ UNCHANGED <<config, pool>>

\* The listing of line 55 fails.
ListItemsFail(p) ==
  /\ task[p].pc = "list_items"
  /\ Becomes(p, Failed(task[p], DatasetError))
  /\ UNCHANGED <<config, pool>>

\* getTokenCredits(token) called directly, for a configured token.
CallGetTokenCredits(p, k) ==
  /\ FirstFree(p)
  /\ Becomes(p, Suspended([IdleTask EXCEPT !.op = "getTokenCredits",
                                           !.pc = "credits_probe",
                                           !.probing = TokenAt(k)]))
  /\ UNCHANGED <<config, pool>>

\* The two reads of lines 56-65 are answered: the snapshot is returned.
CreditsReply(p, reply) ==
  /\ task[p].pc = "credits_probe"
  /\ task' = [task EXCEPT ![p] = IdleTask]
  /\ completed' = [Completion(task[p], NoToken, NoError) EXCEPT
                     !.results = <<getTokenCredits(task[p].probing, reply)>>,
                     !.replies = <<reply>>]
  /\ UNCHANGED <<config, pool>>

\* checkAllTokens() up to its await: one probe per token is issued.
CallCheckAllTokens(p) ==
  /\ FirstFree(p)
  /\ Becomes(p, Suspended([IdleTask EXCEPT !.op = "checkAllTokens",
                                           !.pc = "all_probes"]))
  /\ UNCHANGED <<config, pool>>

\* Mutant: checkAllTokens takes the tokens it finds usable out of the
\* failed set.
AllReply_revive(p, replies) ==
  /\ task[p].pc = "all_probes"
  /\ LET results == [k \in 1..Len(CheckedTokens) |->
                       getTokenCredits(CheckedTokens[k], replies[k])]
     IN /\ tokenCredits' = SetAll(tokenCredits, results)
        /\ failedTokens' = failedTokens \
             { results[k].token : k \in { j \in 1..Len(results) :
                                            Qualifies(results[j]) } }
        /\ completed' = [Completion(task[p], NoToken, NoError) EXCEPT
                           !.results = results]
  /\ task' = [task EXCEPT ![p] = IdleTask]
  /\ UNCHANGED <<config, currentToken, currentTokenIndex, globalToken>>

\* The last of the probes of line 97 is answered, replies[k] being the
\* answer for the k-th probe: lines 101-120.  Until then the probes change
\* nothing.
AllReply(p, replies) ==
  /\ task[p].pc = "all_probes"
  /\ LET results == [k \in 1..Len(CheckedTokens) |->
                       getTokenCredits(CheckedTokens[k], replies[k])]
     IN /\ tokenCredits' = SetAll(tokenCredits, results)
        /\ completed' = [Completion(task[p], NoToken, NoError) EXCEPT
                           !.results = results]
  /\ task' = [task EXCEPT ![p] = IdleTask]
  /\ UNCHANGED <<config, currentToken, currentTokenIndex, failedTokens,
                 globalToken>>

\* fetch({keyword}) up to its first suspension: the wrapper invokes the
\* operation, which calls the gateway.
CallFetch(p) ==
  /\ FirstFree(p)
  /\ Becomes(p, GatewayStart([IdleTask EXCEPT !.op = "fetch",
                                              !.maxAttempts = FETCH_RETRIES,
                                              !.attempts = 1]))
  /\ globalToken' = GatewayGlobal
  /\ UNCHANGED <<config, tokenCredits, currentToken, currentTokenIndex,
                 failedTokens>>

\* executeWithRetry(operation, n) for an operation that touches no pool.
CallExecuteWithRetry(p, n) ==
  /\ FirstFree(p)
  /\ Becomes(p, Suspended([IdleTask EXCEPT !.op = "executeWithRetry",
                                           !.pc = "operation",
                                           !.maxAttempts = n,
                                           !.attempts = 1]))
  /\ UNCHANGED <<config, pool>>

\* The invocation in flight succeeds: its result is returned.
OperationOk(p) ==
  /\ task[p].pc = "operation"
  /\ Becomes(p, Settled([task[p] EXCEPT
                           !.outcomes = Append(task[p].outcomes, "ok")],
                        Result, NoError))
  /\ UNCHANGED <<config, pool>>

\* The invocation in flight fails with error e.
OperationFail(p, e) ==
  /\ task[p].pc = "operation"
  /\ Becomes(p, RetryOrExhaust([task[p] EXCEPT
                                  !.outcomes = Append(task[p].outcomes, e)],
                               e))
  /\ UNCHANGED <<config, pool>>

\* The wait of the wrapper is over: the operation is invoked again.
RetryWake(p) ==
  /\ task[p].pc = "retry_wait"
  /\ LET t == [task[p] EXCEPT !.attempts = task[p].attempts + 1]
     IN IF t.op = "fetch"
          THEN /\ Becomes(p, GatewayStart(t))
               /\ globalToken' = GatewayGlobal
          ELSE /\ Becomes(p, Suspended([t EXCEPT !.pc = "operation"]))
               /\ UNCHANGED globalToken
  /\ UNCHANGED <<config, tokenCredits, currentToken, currentTokenIndex,
                 failedTokens>>

\* new ApifyTokenManager(input), lines 29-48.
Construct ==
  /\ completed.op = "none"
  /\ IF input.type \notin {"string", "array"}
       THEN /\ completed' = [NoCompletion EXCEPT !.op = "constructor",
                                                 !.err = NotStringOrArray]
            /\ UNCHANGED <<tokens, pool>>
       ELSE /\ tokens' = parseTokens(input)
            /\ IF Len(parseTokens(input)) = 0
                 THEN /\ completed' = [NoCompletion EXCEPT
                                         !.op = "constructor",
                                         !.err = NoTokensProvided]
                      /\ UNCHANGED pool
                 ELSE /\ completed' = [NoCompletion EXCEPT
                                         !.op = "constructor"]
                      /\ tokenCredits' = <<>>
                      /\ currentToken' = NoToken
                      /\ currentTokenIndex' = 0
                      /\ failedTokens' = {}
                      /\ UNCHANGED globalToken
  /\ UNCHANGED <<tweetLimit, input, task>>

Next ==
  \/ \E p \in Tasks : CallSelectNextToken(p)
  \/ \E p \in Tasks : CallGetCurrentToken(p)
  \/ \E p \in Tasks : CallCheckAndRotateToken(p)
  \/ \E p \in Tasks : CallRunActorAndGetResults(p)
  \/ \E p \in Tasks, reply \in Replies : SelectReply(p, reply)
  \/ \E p \in Tasks, reply \in Replies : RotateReply(p, reply)
  \/ \E p \in Tasks : ActorCallOk(p)
  \/ \E p \in Tasks : ActorCallFail(p)
  \/ \E p \in Tasks : ListItemsOk(p)
  \/ \E p \in Tasks : ListItemsFail(p)
  \/ ResetFailedTokens

Spec == Init /\ [][Next]_vars

\* Calls that do not overlap: each call is made when no chain is in flight.
Quiet == \A p \in Tasks : Free(p)

AwaitedSelectNextToken == Quiet /\ CallSelectNextToken(1)

AwaitedGetCurrentToken == Quiet /\ CallGetCurrentToken(1)

AwaitedCheckAndRotateToken == Quiet /\ CallCheckAndRotateToken(1)

AwaitedRunActorAndGetResults == Quiet /\ CallRunActorAndGetResults(1)

AwaitedResetFailedTokens == Quiet /\ ResetFailedTokens

AwaitedGetTokenCredits(k) == Quiet /\ CallGetTokenCredits(1, k)

AwaitedCheckAllTokens == Quiet /\ CallCheckAllTokens(1)

AwaitedFetch == Quiet /\ CallFetch(1)

AwaitedExecuteWithRetry(n) == Quiet /\ CallExecuteWithRetry(1, n)

NextSeq ==
  \/ AwaitedSelectNextToken
  \/ AwaitedGetCurrentToken
  \/ AwaitedCheckAndRotateToken
  \/ AwaitedRunActorAndGetResults
  \/ AwaitedResetFailedTokens
  \/ \E k \in 0..(Len(tokens) - 1) : AwaitedGetTokenCredits(k)
  \/ AwaitedCheckAllTokens
  \/ \E p \in Tasks, reply \in ThresholdReplies : SelectReply(p, reply)
  \/ \E p \in Tasks, reply \in ThresholdReplies : RotateReply(p, reply)
  \/ \E p \in Tasks, reply \in AllReplies : CreditsReply(p, reply)
  \/ \E p \in Tasks, replies \in [1..Len(tokens) -> Replies] :
       AllReply(p, replies)
  \/ \E p \in Tasks : ActorCallOk(p)
  \/ \E p \in Tasks : ActorCallFail(p)
  \/ \E p \in Tasks : ListItemsOk(p)
  \/ \E p \in Tasks : ListItemsFail(p)

SpecSeq == InitSeq /\ [][NextSeq]_vars

\* The pool operations alone, overlapping freely.
NextPool ==
  \/ \E p \in Tasks : CallSelectNextToken(p)
  \/ \E p \in Tasks : CallGetCurrentToken(p)
  \/ \E p \in Tasks : CallCheckAndRotateToken(p)
  \/ \E p \in Tasks, reply \in Replies : SelectReply(p, reply)
  \/ \E p \in Tasks, reply \in Replies : RotateReply(p, reply)
  \/ ResetFailedTokens

\* Every probe completes: the HTTP requests of getTokenCredits (lines 56
\* and 62) are answered or fail, and the chain awaiting them resumes.
ProbesComplete ==
  \A p \in Tasks :
    WF_vars(\E reply \in Replies :
              SelectReply(p, reply) \/ RotateReply(p, reply))

\* A pool with the default threshold (TWEET_LIMIT unset).
InitPool ==
  /\ tweetLimit = NoLimit
  /\ tokens \in RacingTokenLists
  /\ input = [type |-> "array", value |-> tokens]
  /\ Fresh

SpecPool == InitPool /\ [][NextPool]_vars /\ ProbesComplete

\* Requests that go through the retry wrapper, one at a time.
NextFetch ==
  \/ AwaitedFetch
  \/ \E n \in 1..MaxAttempts : AwaitedExecuteWithRetry(n)
  \/ AwaitedRunActorAndGetResults
  \/ \E p \in Tasks : RetryWake(p)
  \/ \E p \in Tasks : OperationOk(p)
  \/ \E p \in Tasks, e \in OperationErrors : OperationFail(p, e)
  \/ \E p \in Tasks, reply \in Replies : SelectReply(p, reply)
  \/ \E p \in Tasks, reply \in Replies : RotateReply(p, reply)
  \/ \E p \in Tasks : ActorCallOk(p)
  \/ \E p \in Tasks : ActorCallFail(p)
  \/ \E p \in Tasks : ListItemsOk(p)
  \/ \E p \in Tasks : ListItemsFail(p)

SpecFetch == InitFetch /\ [][NextFetch]_vars

\* The constructor applied to every argument.
NextNew == Construct

SpecNew == NotConstructed /\ [][NextNew]_vars

\* ---------------------------------------------------------- properties
\* The chains that have just come out of a selection scan with a token: the
\* call that settled in the last step and a gateway call running the actor.
Selected ==
  { r \in {completed} \cup { task[p] : p \in Tasks } :
      /\ r.log # <<>>
      /\ r.log[Len(r.log)].verdict = "pick"
      /\ r.op # "none" }

\* The scan recorded in r went through consecutive indices from its start
\* and stopped at its last entry.
Consecutive(r) ==
  \A k \in 1..Len(r.log) : r.log[k].idx = r.scanStart + k - 1

\* The snapshot cached for token t is a valid one at or above the threshold.
CachedGood(t) ==
  /\ t \in DOMAIN tokenCredits
  /\ tokenCredits[t].isValid
  /\ tokenCredits[t].remainingCredits >= MIN_CREDITS_THRESHOLD

\* The scan recorded in r is first-fit: its last entry is the token it
\* adopted, whose probe qualified; every index before it, from the start of
\* the scan, was skipped as failed or probed, found wanting and marked
\* failed; nothing after it was probed.
FirstFit(r) ==
  LET n == Len(r.log)
      pick == r.log[n]
  IN /\ Consecutive(r)
     /\ pick.idx < Len(tokens)
     /\ currentToken = TokenAt(pick.idx)
     /\ currentTokenIndex = pick.idx
     /\ currentToken \notin failedTokens
     /\ CachedGood(currentToken)
     /\ \A k \in 1..(n - 1) :
          /\ r.log[k].verdict \in {"skip", "fail"}
          /\ TokenAt(r.log[k].idx) \in failedTokens
          /\ r.log[k].verdict = "fail" =>
               /\ TokenAt(r.log[k].idx) \in DOMAIN tokenCredits
               /\ ~ CachedGood(TokenAt(r.log[k].idx))

\* The scan of the example: tokens [A, B], threshold 0.1, start index 0,
\* A probed with 0.05 remaining and B with 5.0.
ExampleScan(r) ==
  /\ tokens = <<"A", "B">>
  /\ tweetLimit = NoLimit
  /\ r.op = "selectNextToken"
  /\ r.scanStart = 0
  /\ Len(r.log) = 2
  /\ \A k \in 1..2 : r.log[k].verdict # "skip"
  /\ DOMAIN tokenCredits = {"A", "B"}
  /\ tokenCredits["A"].isValid /\ tokenCredits["A"].remainingCredits = 200
  /\ tokenCredits["B"].isValid /\ tokenCredits["B"].remainingCredits = 20000

ScanProbeIssued(p) ==
  /\ task'[p].pc = "select_probe"
  /\ task'[p] # task[p]

\* C2: failed-set stickiness.  A selection scan never issues a probe for a
\* token that is in the failed set, and only resetFailedTokens takes a token
\* out of the failed set; so a token once marked failed is not probed by any
\* later scan until a reset, whatever calls are made and however they
\* interleave.
C2_FailedSetSticky ==
  [][ /\ \A p \in Tasks :
           ScanProbeIssued(p) => task'[p].probing \notin failedTokens'
      /\ failedTokens \subseteq failedTokens'
           \/ completed'.op = "resetFailedTokens" ]_vars

\* A scan has passed over a failed token and is probing a later one.
C2_Witness ==
  \E p \in Tasks :
    /\ task[p].pc = "select_probe"
    /\ \E k \in 1..Len(task[p].log) :
         /\ task[p].log[k].verdict = "skip"
         /\ TokenAt(task[p].log[k].idx) \in failedTokens

\* C3: reset clears stickiness.  After resetFailedTokens() every token that
\* was in the failed set is one the next selection scan can reach: it is at
\* an index the loop visits and it is not skipped.
C3_ResetMakesEligible ==
  [][ completed'.op = "resetFailedTokens" =>
        \A t \in failedTokens \ {NoToken} :
          \E k \in Candidates(LoopStart(currentTokenIndex'), failedTokens') :
            TokenAt(k) = t ]_vars

\* A step is a call of getCurrentToken(): it starts a chain or settles at
\* once.
GetCurrentTokenCalled ==
  \/ \E p \in Tasks : task[p].pc = "idle" /\ task'[p].op = "getCurrentToken"
  \/ completed'.op = "getCurrentToken" /\ task' = task

\* C4: cheap accessor.  A getCurrentToken() call made while a token is
\* selected returns that token at once: no probe is issued, no chain is
\* suspended and the pool is unchanged.  A getCurrentToken() call that
\* returns a token leaves that token selected, so the call after it is
\* such a call and returns the same token.
C4_CheapAccessor ==
  [][ /\ GetCurrentTokenCalled /\ currentToken # NoToken =>
           /\ completed'.op = "getCurrentToken"
           /\ completed'.err = NoError
           /\ completed'.ret = currentToken
           /\ completed'.log = <<>>
           /\ task' = task
           /\ UNCHANGED <<tokenCredits, currentToken, currentTokenIndex,
                          failedTokens>>
      /\ completed'.op = "getCurrentToken" /\ completed'.err = NoError =>
           /\ completed'.ret # NoToken
           /\ completed'.ret = currentToken' ]_vars

\* getCurrentToken() has returned the selected token without a scan.
C4_Witness ==
  /\ completed.op = "getCurrentToken"
  /\ completed.log = <<>>
  /\ completed.scanStart = -1
  /\ completed.ret # NoToken
  /\ completed.ret = currentToken

Picked(r) == \E k \in 1..Len(r.log) : r.log[k].verdict = "pick"

\* C5: pool exhaustion.  A selection scan that ends without a qualifying
\* token fails the call with the no-valid-token error, and a call that fails
\* with it has neither run the actor nor listed a dataset; a gateway call
\* runs the actor only with a token it got from the pool.
C5_PoolExhaustion ==
  /\ /\ completed.op \in {"selectNextToken", "getCurrentToken",
                           "runActorAndGetResults"}
     /\ ~ completed.background
     /\ completed.scanStart >= 0
     /\ ~ Picked(completed)
     => completed.err = NoValidTokens
  /\ completed.err = NoValidTokens =>
       /\ ~ Picked(completed)
       /\ completed.ret = NoToken
       /\ completed.actorRuns = 0
       /\ completed.listings = 0
  /\ \A p \in Tasks :
       task[p].actorRuns > 0 \/ task[p].listings > 0 =>
         /\ task[p].op = "runActorAndGetResults"
         /\ task[p].detached \/ task[p].scanStart = -1 \/ Picked(task[p])

\* A gateway call has probed every configured token, found none usable
\* and failed.
C5_Witness ==
  /\ completed.op = "runActorAndGetResults"
  /\ completed.err = NoValidTokens
  /\ completed.actorRuns = 0
  /\ Len(completed.log) = Len(tokens)
  /\ \A k \in 1..Len(tokens) : completed.log[k].verdict = "fail"

\* C6: the post-call rotation check does not block the caller.  The step
\* in which the dataset listing answers is the step in which the gateway
\* call settles, with the items when the listing succeeded; the rotation
\* check launched in that step, and every later step of it, runs in a chain
\* nobody awaits.
C6_RotationNonBlocking ==
  [][ \A p \in Tasks :
        /\ task[p].pc = "list_items" /\ task'[p] # task[p] =>
             /\ completed'.op = "runActorAndGetResults"
             /\ ~ completed'.background
             /\ completed'.err \in {NoError, DatasetError}
             /\ completed'.err = NoError => completed'.ret = Items
        /\ /\ task'[p].op = "runActorAndGetResults"
           /\ task'[p].via = "checkAndRotateToken"
           => task'[p].detached ]_vars

\* The items have just been returned and the probe of the rotation check
\* is still in flight.
C6_Witness ==
  /\ completed.op = "runActorAndGetResults"
  /\ completed.ret = Items
  /\ ~ completed.background
  /\ \E p \in Tasks :
       /\ task[p].op = "runActorAndGetResults"
       /\ task[p].pc = "rotate_probe"
       /\ task[p].detached

\* C7: errors of the rotation check never propagate.  checkAndRotateToken()
\* settles without an error whatever the probes answer, also when the
\* replacement scan finds no usable token; the check a gateway call left
\* behind settles without an error too, and a gateway call whose listing
\* succeeded has returned its items.
C7_RotationErrorsSwallowed ==
  /\ completed.op = "checkAndRotateToken" =>
       completed.err = NoError /\ completed.ret = NoToken
  /\ completed.background => completed.err = NoError
  /\ /\ completed.op = "runActorAndGetResults"
     /\ ~ completed.background
     /\ completed.listings > 0
     /\ completed.err # DatasetError
     => completed.err = NoError /\ completed.ret = Items

\* A rotation check has dropped the current token, found no replacement
\* and settled.
C7_Witness ==
  /\ completed.op = "checkAndRotateToken"
  /\ completed.dropped >= 0
  /\ ~ Picked(completed)
  /\ completed.err = NoError
  /\ currentToken = NoToken

\* The calls that ran a rotation check to its end.
RotationSettled ==
  \/ completed.op = "checkAndRotateToken"
  \/ completed.op = "runActorAndGetResults" /\ completed.background

C9_RotationKeepsGoodToken ==
  [][ \A p \in Tasks :
        /\ task[p].pc # "rotate_probe" /\ task'[p].pc = "rotate_probe" =>
             /\ currentToken # NoToken
             /\ task'[p].probing = currentToken
        /\ /\ task[p].pc = "rotate_probe"
           /\ task'[p] # task[p]
           /\ tokenCredits'[currentToken].isValid
           /\ tokenCredits'[currentToken].remainingCredits
                >= MIN_CREDITS_THRESHOLD
           => /\ UNCHANGED <<currentToken, currentTokenIndex, failedTokens>>
              /\ task'[p].pc = "idle"
              /\ completed'.dropped = -1
              /\ completed'.log = task[p].log ]_vars

\* A rotation check found the current token still good and kept it.
C9_Witness ==
  /\ completed.op = "checkAndRotateToken"
  /\ completed.dropped = -1
  /\ currentToken # NoToken
  /\ CachedGood(currentToken)
  /\ tokenCredits[currentToken].remainingCredits = MIN_CREDITS_THRESHOLD
  /\ currentToken \notin failedTokens

\* The scans on record: the one of the call that settled in the last step
\* and those of the chains in flight.
Scans ==
  { r \in {completed} \cup { task[p] : p \in Tasks } : r.scanStart >= 0 }

Normalised(s) ==
  /\ Len(s) > 0
  /\ s[1] \notin Whitespace
  /\ s[Len(s)] \notin Whitespace

\* The entries of the constructor's argument: the pieces between the commas
\* of a string, the elements of an array.
Entries(arg) == IF arg.type = "string" THEN split(arg.value) ELSE arg.value

\* C11: pool construction normalises its input.  For a string and for an
\* array alike, a pool that was constructed holds the trimmed non-blank
\* entries of the argument, in their order: at least one token, each of
\* them non-empty and without surrounding whitespace; construction fails
\* with the configuration error of its case when the argument is neither a
\* string nor an array or has no non-blank entry, and only then.
C11_ConstructionNormalises ==
  completed.op = "constructor" =>
    /\ input.type \notin {"string", "array"} =>
         completed.err = NotStringOrArray
    /\ /\ input.type \in {"string", "array"}
       /\ \A k \in 1..Len(Entries(input)) : trim(Entries(input)[k]) = <<>>
       => completed.err = NoTokensProvided
    /\ completed.err = NoError =>
         /\ input.type \in {"string", "array"}
         /\ Len(tokens) >= 1
         /\ \A k \in 1..Len(tokens) : Normalised(tokens[k])
         /\ tokens = SelectSeq([k \in 1..Len(Entries(input)) |->
                                  trim(Entries(input)[k])], Truthy)

\* The step in which the probe of a direct getTokenCredits call is answered.
CreditsAnswered(p) ==
  /\ task[p].pc = "credits_probe"
  /\ task'[p] # task[p]

\* C12: probe failures are data.  A getTokenCredits(token) call settles
\* without an error whatever the two reads answer, with one snapshot of the
\* token it was called for: when both reads succeed the snapshot is valid
\* with the credits reported (0 for a missing figure) and remaining =
\* max(0, included - used); when either read fails it is invalid with
\* remaining 0 and the error message.  Neither the call nor its completion
\* changes the current token, the index, the failed set or the credit cache.
C12_ProbeFailuresAreData ==
  [][ \A p \in Tasks :
        /\ task'[p].pc = "credits_probe" /\ task'[p] # task[p] =>
             UNCHANGED <<currentToken, currentTokenIndex, failedTokens,
                         tokenCredits>>
        /\ CreditsAnswered(p) =>
             /\ completed'.op = "getTokenCredits"
             /\ completed'.err = NoError
             /\ Len(completed'.results) = 1
             /\ LET snapshot == completed'.results[1]
                    reply == completed'.replies[1]
                IN /\ snapshot.token = task[p].probing
                   /\ reply.userOk /\ reply.usageOk =>
                        /\ snapshot.isValid
                        /\ snapshot.error = NoError
                        /\ snapshot.includedCredits =
                             (IF reply.included = Undefined THEN 0
                              ELSE reply.included)
                        /\ snapshot.usedCredits = reply.used
                        /\ snapshot.remainingCredits =
                             (IF snapshot.includedCredits
                                   > snapshot.usedCredits
                                THEN snapshot.includedCredits
                                       - snapshot.usedCredits
                                ELSE 0)
                   /\ ~ (reply.userOk /\ reply.usageOk) =>
                        /\ ~ snapshot.isValid
                        /\ snapshot.remainingCredits = 0
                        /\ snapshot.error = RequestFailed
             /\ UNCHANGED <<currentToken, currentTokenIndex, failedTokens,
                            tokenCredits>> ]_vars

\* A direct probe of a pool that has a current token and a failed one
\* returned a valid snapshot of an overdrawn account: remaining is 0.
C12_Witness ==
  /\ completed.op = "getTokenCredits"
  /\ completed.results # <<>>
  /\ completed.results[1].isValid
  /\ completed.results[1].usedCredits > completed.results[1].includedCredits
  /\ completed.results[1].remainingCredits = 0
  /\ currentToken # NoToken
  /\ failedTokens # {}

\* The log of chain p after a step of it.
LogAfter(p) == IF task'[p].pc = "idle" THEN completed'.log ELSE task'[p].log

\* C13: the threshold formula.  In units of 0.00025 USD the threshold is
\* L + 100 when the limit L is configured (200 = 0.05 USD for L = 100) and
\* 400 = 0.1 USD when none is.  A scan adopts the token it probed exactly
\* when the snapshot is valid with remaining >= threshold, and marks it
\* failed otherwise; a rotation check keeps the current token exactly when
\* the snapshot is valid with remaining >= threshold.  Remaining equal to
\* the threshold qualifies.
C13_ThresholdFormula ==
  [][ /\ tweetLimit = 100 => MIN_CREDITS_THRESHOLD = 200
      /\ tweetLimit = NoLimit => MIN_CREDITS_THRESHOLD = 400
      /\ \A p \in Tasks :
           LET threshold == IF tweetLimit = NoLimit THEN 400
                            ELSE tweetLimit + 100
               snapshot == tokenCredits'[task[p].probing]
               qualifies == /\ snapshot.isValid
                            /\ snapshot.remainingCredits >= threshold
           IN /\ task[p].pc = "select_probe" /\ task'[p] # task[p] =>
                   LET verdict == LogAfter(p)[Len(task[p].log) + 1].verdict
                   IN /\ verdict = "pick" <=> qualifies
                      /\ verdict = "fail" <=> ~ qualifies
                      /\ qualifies => /\ currentToken' = task[p].probing
                                      /\ failedTokens' = failedTokens
                      /\ ~ qualifies => task[p].probing \in failedTokens'
              /\ task[p].pc = "rotate_probe" /\ task'[p] # task[p] =>
                   /\ qualifies => UNCHANGED <<currentToken, failedTokens>>
                   /\ ~ qualifies => /\ currentToken' # currentToken
                                     /\ task[p].probing \in failedTokens'
    ]_vars

\* With no limit configured a scan has turned down a valid token with
\* 0.05 USD left and adopted one with exactly 0.1 USD left.
C13_Witness ==
  /\ tweetLimit = NoLimit
  /\ completed.op = "selectNextToken"
  /\ Picked(completed)
  /\ tokenCredits[currentToken].remainingCredits = 400
  /\ \E t \in failedTokens :
       /\ t \in DOMAIN tokenCredits
       /\ tokenCredits[t].isValid
       /\ tokenCredits[t].remainingCredits = 200

\* C14: checkAllTokens() probes every configured token, failed or not: the
\* call that settles returns one snapshot per configured token, the k-th
\* one being of the k-th token, and the credit cache then holds for every
\* configured token the snapshot returned for it.
C14_CheckAllTokens ==
  [][ \A p \in Tasks :
        task[p].pc = "all_probes" /\ task'[p] # task[p] =>
          /\ completed'.op = "checkAllTokens"
          /\ completed'.err = NoError
          /\ Len(completed'.results) = Len(tokens)
          /\ \A k \in 1..Len(tokens) :
               /\ completed'.results[k].token = tokens[k]
               /\ tokens[k] \in DOMAIN tokenCredits'
               /\ tokenCredits'[tokens[k]] = completed'.results[k] ]_vars

\* checkAllTokens() has returned three snapshots, a fresh valid one for a
\* token that is in the failed set.
C14_Witness ==
  /\ completed.op = "checkAllTokens"
  /\ Len(completed.results) = 3
  /\ \E k \in 1..Len(tokens) :
       /\ tokens[k] \in failedTokens
       /\ completed.results[k].isValid
       /\ completed.results[k].remainingCredits = 20000
       /\ tokenCredits[tokens[k]] = completed.results[k]

\* The calls under the retry wrapper on record: the one that settled in the
\* last step and those in flight.
Wrapped ==
  { r \in {completed} \cup { task[p] : p \in Tasks } : r.maxAttempts > 0 }

Failures(r) == { k \in 1..Len(r.outcomes) : r.outcomes[k] # "ok" }

\* C15: retry stops at the first success.  The wrapper never invokes the
\* operation more than maxAttempts times; no invocation follows one that
\* succeeded: a call in flight has seen failures only, and a call whose
\* last invocation succeeded settles in that step with its result; an
\* operation that succeeds at once is invoked exactly once.
C15_RetryStopsAtFirstSuccess ==
  /\ \A r \in Wrapped :
       /\ r.attempts >= 1
       /\ r.attempts <= r.maxAttempts
       /\ Len(r.outcomes) <= r.maxAttempts
       /\ \A k \in 1..(Len(r.outcomes) - 1) : r.outcomes[k] # "ok"
  /\ \A p \in Tasks :
       task[p].op = "executeWithRetry" =>
         /\ Failures(task[p]) = 1..Len(task[p].outcomes)
         /\ Len(task[p].outcomes) =
              task[p].attempts - (IF task[p].pc = "operation" THEN 1 ELSE 0)
  /\ completed.op = "executeWithRetry" =>
       /\ Len(completed.outcomes) = completed.attempts
       /\ completed.outcomes[completed.attempts] = "ok" =>
            completed.err = NoError /\ completed.ret = Result
       /\ completed.outcomes[1] = "ok" => completed.attempts = 1

\* A call with a budget of three has failed once, succeeded at the second
\* invocation and returned.
C15_Witness ==
  /\ completed.op = "executeWithRetry"
  /\ completed.maxAttempts = 3
  /\ completed.outcomes = <<"E1", "ok">>
  /\ completed.ret = Result
  /\ completed.err = NoError

\* C16: retry exhaustion.  A call whose every invocation failed has invoked
\* the operation exactly maxAttempts times and fails with RetryExhausted
\* around the error of the last invocation; no call fails with
\* RetryExhausted otherwise.
C16_RetryExhaustion ==
  /\ completed.op = "executeWithRetry" =>
       /\ Failures(completed) = 1..Len(completed.outcomes) =>
            /\ Len(completed.outcomes) = completed.maxAttempts
            /\ completed.err = RetryExhausted
            /\ completed.cause = completed.outcomes[completed.maxAttempts]
            /\ completed.ret = NoToken
       /\ completed.err = RetryExhausted =>
            Failures(completed) = 1..completed.maxAttempts
  /\ completed.err = RetryExhausted =>
       /\ completed.maxAttempts > 0
       /\ completed.attempts = completed.maxAttempts
       /\ completed.cause # NoError

\* A call with a budget of three has failed three times; it fails with the
\* error of the third invocation.
C16_Witness ==
  /\ completed.op = "executeWithRetry"
  /\ completed.maxAttempts = 3
  /\ completed.outcomes = <<"E1", "E1", "E2">>
  /\ completed.err = RetryExhausted
  /\ completed.cause = "E2"

C18_FetchRetryBudget ==
  /\ \A r \in Wrapped :
       r.op = "fetch" =>
         /\ r.maxAttempts = 10
         /\ r.attempts <= 10
         /\ r.actorRuns <= r.attempts
         /\ r.listings <= r.actorRuns
  /\ completed.op = "fetch" /\ ~ completed.background =>
       \/ /\ completed.err = NoError
          /\ completed.ret = Tweets
          /\ completed.actorRuns >= 1
       \/ /\ completed.err = RetryExhausted
          /\ completed.ret = NoToken
          /\ completed.attempts = 10
  /\ \A p \in Tasks :
       task[p].detached =>
         /\ task[p].pc \in {"rotate_probe", "select_probe"}
         /\ task[p].via = "checkAndRotateToken"

\* A fetch request has succeeded at its tenth attempt, after nine actor
\* runs that led to nothing.
C18_Witness ==
  /\ completed.op = "fetch"
  /\ completed.err = NoError
  /\ completed.ret = Tweets
  /\ completed.attempts = 10
  /\ completed.actorRuns = 10

\* C19: NoCredentialAvailable is not retried.  A request whose selection
\* scan found no usable token does not wait to try again and calls
\* selectNextToken once at most; a request that fails for want of a token
\* has made one attempt.
C19_NoCredentialNotRetried ==
  /\ \A p \in Tasks : task[p].lastError # NoValidTokens
  /\ \A r \in {completed} \cup { task[p] : p \in Tasks } : r.selections <= 1
  /\ completed.err = NoValidTokens \/ completed.cause = NoValidTokens =>
       completed.attempts <= 1

\* C20: safe concurrent access.  However the chains interleave, a token
\* enters the failed set only in a step in which the probe of that same
\* token is answered.
C20_FailedOnlyAfterOwnProbe ==
  [][ \A t \in (failedTokens' \ failedTokens) \ {NoToken} :
        \E p \in Tasks :
          /\ task[p].pc \in {"select_probe", "rotate_probe"}
          /\ task'[p] # task[p]
          /\ task[p].probing = t ]_vars

\* The configured tokens.
Configured == { tokens[k] : k \in 1..Len(tokens) }

\* C21: the cache is keyed by token.  However the chains interleave, every
\* key of the cache is a configured token and the snapshot stored under a
\* key is the snapshot of that token.
C21_CacheKeyedByToken ==
  \A k \in DOMAIN tokenCredits :
    /\ k \in Configured
    /\ tokenCredits[k].token = k

\* C22: the selection is consistent.  The current token is null or a
\* configured token; when it is not null it is the token at the current
\* index; the current index lies between 0 and the number of tokens.
C22_SelectionConsistent ==
  /\ currentToken \in Configured \cup {NoToken}
  /\ currentToken # NoToken =>
       /\ currentTokenIndex < Len(tokens)
       /\ tokens[currentTokenIndex + 1] = currentToken
  /\ currentTokenIndex >= 0
  /\ currentTokenIndex <= Len(tokens)

\* While a rotation check is in flight the second token is current, at
\* index 1, after the first one failed.
C22_Witness ==
  /\ Len(tokens) >= 2
  /\ currentToken = TokenAt(1)
  /\ currentTokenIndex = 1
  /\ TokenAt(0) \in failedTokens
  /\ \E p \in Tasks : task[p].pc = "rotate_probe"

\* C23: exhaustion is terminal until reset.  When calls do not overlap and
\* the call that settled last was a scan that ended without a usable token,
\* a getCurrentToken() or selectNextToken() made next (no
\* resetFailedTokens() in between) fails with the no-credential error in
\* the step of the call, without issuing a probe.
C23_ExhaustionTerminal ==
  [][ completed.scanStart >= 0 /\ ~ Picked(completed) =>
        /\ \A p \in Tasks :
             task'[p].op \notin {"getCurrentToken", "selectNextToken"}
        /\ completed'.op \in {"getCurrentToken", "selectNextToken"} =>
             completed'.err = NoValidTokens ]_vars

C25_NoAutomaticExpiry ==
  [][ IF completed'.op = "resetFailedTokens"
        THEN /\ failedTokens' = {}
             /\ UNCHANGED <<currentToken, currentTokenIndex, tokenCredits>>
        ELSE failedTokens \subseteq failedTokens' ]_vars

\* resetFailedTokens() has emptied the failed set while the second token is
\* selected and the cache still holds the disqualifying snapshot of the
\* first.
C25_Witness ==
  /\ Len(tokens) >= 2
  /\ completed.op = "resetFailedTokens"
  /\ failedTokens = {}
  /\ currentTokenIndex = 1
  /\ currentToken = TokenAt(1)
  /\ TokenAt(0) \in DOMAIN tokenCredits
  /\ ~ CachedGood(TokenAt(0))

\* C26: the current token is never a failed token.  Whenever no call is in
\* progress, after any sequence of getCurrentToken, selectNextToken,
\* checkAndRotateToken and resetFailedTokens calls, a current token that is
\* not null is not in the failed set.
C26_CurrentNotFailed ==
  Quiet /\ currentToken # NoToken => currentToken \notin failedTokens

\* C27: the module-level getter mirrors the pool.  Whenever no call is in
\* progress, the synchronous module-level getCurrentToken() returns null or
\* the current token of the pool.
C27_ModuleGetterMirrors ==
  Quiet => ModuleGetCurrentToken \in {NoToken, currentToken}

\* C28: the current index never decreases.  However the chains interleave,
\* no step of any pool operation lowers the current index.
C28_IndexMonotonic ==
  [][ currentTokenIndex' >= currentTokenIndex ]_vars

\* C29: scans terminate.  Given that every probe completes, a chain that is
\* waiting for the probe of a scan or of a rotation check settles in the
\* end.  A scan visits the indices from its start upwards, each once, and
\* so probes no token twice and no more tokens than the list has from the
\* index at which it started; a scan that has ended has adopted a token or
\* has thrown the no-credential error (swallowed by a rotation check).
C29_ScansTerminate ==
  /\ [] \A r \in Scans :
          /\ Consecutive(r)
          /\ Len(r.log) <= Len(tokens) - r.scanStart
  /\ [] (completed.scanStart >= 0 =>
           \/ Picked(completed) /\ completed.err = NoError
           \/ /\ ~ Picked(completed)
              /\ Len(completed.log) = Len(tokens) - completed.scanStart
              /\ IF completed.op = "checkAndRotateToken"
                   THEN completed.err = NoError
                   ELSE completed.err = NoValidTokens)
  /\ \A p \in Tasks :
       (task[p].pc \in {"select_probe", "rotate_probe"})
         ~> (task[p].pc = "idle")

\* A rotation check has ended after dropping the first of two tokens and
\* probing the second, which it found wanting: the scan made the one probe
\* the list allowed it.
C29_Witness ==
  /\ Len(tokens) = 2
  /\ completed.op = "checkAndRotateToken"
  /\ completed.dropped = 0
  /\ completed.scanStart = 1
  /\ completed.log = <<[idx |-> 1, verdict |-> "fail"]>>
  /\ \A p \in Tasks : task[p].pc = "idle"

\* C30: checkAllTokens() changes the cache only.  No step of a
\* checkAllTokens() call changes the current token, the current index or
\* the failed set; so when the call has found a failed token valid and at
\* or above the threshold, the scan of a getCurrentToken(),
\* selectNextToken() or runActorAndGetResults() made next still skips that
\* token.
C30_CheckAllTokensFrame ==
  [][ /\ \A p \in Tasks :
           /\ task'[p] # task[p]
           /\ "all_probes" \in {task[p].pc, task'[p].pc}
           => UNCHANGED <<currentToken, currentTokenIndex, failedTokens>>
      /\ completed.op = "checkAllTokens" =>
           \A k \in 1..Len(tokens) :
             /\ tokens[k] \in failedTokens
             /\ completed.results[k].isValid
             /\ completed.results[k].remainingCredits >= MIN_CREDITS_THRESHOLD
             => \A r \in Scans' :
                  /\ r.op \in {"getCurrentToken", "selectNextToken",
                               "runActorAndGetResults"} =>
                       \A j \in 1..Len(r.log) :
                         r.log[j].idx = k - 1 => r.log[j].verdict = "skip"
                  /\ \A p \in Tasks : task'[p].probing # tokens[k] ]_vars

\* After checkAllTokens() cached a usable snapshot for the failed first
\* token, a getCurrentToken() has scanned from index 0, skipped that token
\* with the rest of the list and thrown.
C30_Witness ==
  /\ completed.op = "getCurrentToken"
  /\ completed.err = NoValidTokens
  /\ completed.scanStart = 0
  /\ Len(completed.log) = Len(tokens)
  /\ completed.log[1].verdict = "skip"
  /\ TokenAt(0) \in failedTokens
  /\ CachedGood(TokenAt(0))
  /\ currentToken = NoToken
====
